---- MODULE Spec2Model ----
(***************************************************************************)
(* SimpleImageSR: the two command-line tools of the repository.            *)
(*                                                                         *)
(*   scripts/convert_pth2coreml_new.py  checkpoint -> Core ML package      *)
(*   scripts/quick_sr.py                package + image -> image, dumps    *)
(*                                                                         *)
(* Each run of a tool is one behaviour: Init fixes the tool, its command   *)
(* line and the files it finds, and every action is one statement group of *)
(* main().  Calls into torch / coremltools / PIL / matplotlib are library  *)
(* calls: the model lets each of them return or raise.                     *)
(*                                                                         *)
(* Numbers are fixed point: the integer n stands for the real n / Scale.   *)
(* Scale is a power of two, so every value and every product by 255 that   *)
(* the model forms is exact in float32 as well.                            *)
(*                                                                         *)
(* The import statement at convert_pth2coreml_new.py:26-28 names nothing   *)
(* that the code uses; the model follows the bodies of the functions.      *)
(***************************************************************************)
EXTENDS Integers, Sequences, FiniteSets

VARIABLES
    tool,        \* "convert" or "quick_sr": which script this run executes
    pc,          \* position in main()
    steps,       \* the calls made so far, in order (the last one may have raised)
    printed,     \* the lines printed so far (tags), in order
    raised,      \* the exception that ended the run, "" if none
    exit,        \* "running", "0" or "1": the process exit status
    \* ---- convert_pth2coreml_new.py
    args,        \* the parsed command line
    ckpt,        \* the keys of the mapping torch.load returns
    net,         \* the RRDBNet: which state dicts were loaded, eval mode
    model,       \* what the local `model` is bound to
    input_desc,  \* the declared input: <<>> or <<[h, w]>>
    traced,      \* the traced module: <<>> or <<[module, base, out]>>, with the
                 \* network's output and the module's output on the example
    mlmodel,     \* the converted package: <<>> or <<[...]>>
    outFile,     \* what is at args.out: <<>> or <<package>>
    \* ---- quick_sr.py
    histDirExists, \* whether args.hist_dir is a directory
    loaded,      \* the MLModel was constructed
    decoded,     \* the input image was decoded
    result,      \* what predict returned: a sequence of [key, val]
    out,         \* <<>> or <<val>>: the value selected from result
    out_key,     \* the key it was selected under
    files,       \* the files written by the run
    savedImg,    \* the 8-bit image written at args.output
    floatHist,   \* the values plotted in hist_output_float.png
    histData     \* the values plotted in hist_output.png

vars == <<tool, pc, steps, printed, raised, exit, args, ckpt, net, model,
          input_desc, traced, mlmodel, outFile, histDirExists, loaded,
          decoded, result, out, out_key, files, savedImg, floatHist, histData>>

convVars == <<args, ckpt, net, model, input_desc, traced, mlmodel, outFile>>
runVars == <<histDirExists, loaded, decoded, result, out, out_key, files,
             savedImg, floatHist, histData>>

----------------------------------------------------------------------------
(* Bounds of the model *)

\* the integer n stands for n / Scale
Scale == 4
\* elements per tensor / per image array
ArrLen == 2
\* --min-dim and --max-dim range over 1..MaxDim
MaxDim == 2

ONE == Scale

Range(s) == {s[i] : i \in 1..Len(s)}

----------------------------------------------------------------------------
(* Numeric helpers *)

\* torch.clamp / ndarray.clip on one element
Clip(x, lo, hi) == IF x < lo THEN lo ELSE IF x > hi THEN hi ELSE x

\* ndarray.max()
ArrMax(arr) == CHOOSE m \in Range(arr) : \A x \in Range(arr) : x <= m

\* ndarray.astype(np.uint8) on one element: the fraction is dropped
AsUint8(x) ==
    IF x >= 0 THEN (x \div Scale) % 256
    ELSE (256 - (((0 - x) \div Scale) % 256)) % 256

----------------------------------------------------------------------------
(* convert_pth2coreml_new.py *)

CkptKeys == {"params_ema", "params", "optimizer"}

\* the values a network output element is drawn from: below 0, inside
\* [0,1] and above 1
BaseVals == {0 - (Scale \div 2), 0, Scale \div 2, ONE, ONE + (Scale \div 2)}
Tensors == [1..ArrLen -> BaseVals]

ConvArgs == [float16 : BOOLEAN, min_dim : 1..MaxDim, max_dim : 1..MaxDim]

\* for key in ("params_ema", "params")
KeyOrder_swapped == <<"params", "params_ema">>
KeyOrder == <<"params_ema", "params">>

\* the for/else of load_rrdbnet: <<k>> for the first key of `order` that is
\* in the checkpoint, <<>> when the loop ends without a break
RECURSIVE FirstKeyIn(_, _)
FirstKeyIn(order, keys) ==
    IF order = <<>> THEN <<>>
    ELSE IF Head(order) \in keys THEN <<Head(order)>>
    ELSE FirstKeyIn(Tail(order), keys)

\* ClampedModel.forward: torch.clamp(out, 0.0, 1.0) * 255.0
Forward_noclamp(baseOut) == [i \in 1..Len(baseOut) |-> baseOut[i] * 255]
Forward(baseOut) == [i \in 1..Len(baseOut) |-> Clip(baseOut[i], 0, ONE) * 255]

\* what calling the module bound to `model` returns for a network output
Call(m, baseOut) == IF m = "ClampedModel" THEN Forward(baseOut) ELSE baseOut

\* ct.RangeDim(args.min_dim, args.max_dim) for the height and for the width
InputDesc_minonly(a) ==
    [h |-> <<a.min_dim, a.max_dim>>, w |-> <<a.min_dim, a.min_dim>>]
InputDesc(a) ==
    [h |-> <<a.min_dim, a.max_dim>>, w |-> <<a.min_dim, a.max_dim>>]

\* if args.float16: (the guard of the quantization pass)
NeedsQuantize_always(a) == TRUE
NeedsQuantize(a) == a.float16

\* the except block of main: print, traceback, sys.exit(1)
ConvFail(exc) ==
    /\ raised' = exc
    /\ printed' = Append(printed, "conversion_error")
    /\ exit' = "1"
    /\ pc' = "exited"

\* load_rrdbnet when no recognised key is present: the loop's else raises
LoadWeights_noraise ==
    /\ tool = "convert" /\ pc = "load"
    /\ LET found == FirstKeyIn(KeyOrder, ckpt) IN
         /\ net' = [loaded |-> IF found = <<>> THEN net.loaded
                               ELSE net.loaded \o found,
                    eval |-> TRUE]
         /\ model' = "RRDBNet"
         /\ steps' = Append(steps, "load_rrdbnet")
         /\ pc' = "wrap"
         /\ UNCHANGED <<printed, raised, exit>>
    /\ UNCHANGED <<tool, args, ckpt, input_desc, traced, mlmodel, outFile>>
    /\ UNCHANGED runVars

\* model = load_rrdbnet(args.pth), torch.load having returned the mapping
LoadWeights ==
    /\ tool = "convert" /\ pc = "load"
    /\ LET found == FirstKeyIn(KeyOrder, ckpt) IN
         IF found = <<>>
         THEN /\ ConvFail("RuntimeError")
              /\ steps' = Append(steps, "load_rrdbnet")
              /\ UNCHANGED <<net, model>>
         ELSE /\ net' = [loaded |-> net.loaded \o found, eval |-> TRUE]
              /\ model' = "RRDBNet"
              /\ steps' = Append(steps, "load_rrdbnet")
              /\ pc' = "wrap"
              /\ UNCHANGED <<printed, raised, exit>>
    /\ UNCHANGED <<tool, args, ckpt, input_desc, traced, mlmodel, outFile>>
    /\ UNCHANGED runVars

\* load_state_dict(ckpt[key], strict=True) raises on a mismatch: the loop
\* is left by the exception, no further key is tried, eval() is not reached
LoadWeightsMismatch ==
    /\ tool = "convert" /\ pc = "load"
    /\ LET found == FirstKeyIn(KeyOrder, ckpt) IN
         /\ found # <<>>
         /\ net' = [net EXCEPT !.loaded = net.loaded \o found]
    /\ ConvFail("StateDictError")
    /\ steps' = Append(steps, "load_rrdbnet")
    /\ UNCHANGED <<tool, args, ckpt, model, input_desc, traced, mlmodel,
                   outFile>>
    /\ UNCHANGED runVars

\* model = ClampedModel(model)
Wrap ==
    /\ tool = "convert" /\ pc = "wrap"
    /\ model' = "ClampedModel"
    /\ steps' = Append(steps, "ClampedModel")
    /\ pc' = "declare"
    /\ UNCHANGED <<tool, printed, raised, exit, args, ckpt, net, input_desc,
                   traced, mlmodel, outFile>>
    /\ UNCHANGED runVars

\* input_desc = ct.ImageType(... ct.RangeDim(min_dim, max_dim) twice ...)
DeclareInput ==
    /\ tool = "convert" /\ pc = "declare"
    /\ input_desc' = <<InputDesc(args)>>
    /\ steps' = Append(steps, "ImageType")
    /\ pc' = "trace"
    /\ UNCHANGED <<tool, printed, raised, exit, args, ckpt, net, model,
                   traced, mlmodel, outFile>>
    /\ UNCHANGED runVars

\* traced = torch.jit.trace(model, example_input): runs the module once
Trace ==
    /\ tool = "convert" /\ pc = "trace"
    /\ \E baseOut \in Tensors :
         traced' = <<[module |-> model, base |-> baseOut,
                      out |-> Call(model, baseOut)]>>
    /\ steps' = Append(steps, "trace")
    /\ pc' = "convert"
    /\ UNCHANGED <<tool, printed, raised, exit, args, ckpt, net, model,
                   input_desc, mlmodel, outFile>>
    /\ UNCHANGED runVars

\* mlmodel = ct.convert(traced, **conversion_options)
Convert ==
    /\ tool = "convert" /\ pc = "convert"
    /\ mlmodel' = <<[module |-> traced[1].module,
                     input |-> input_desc[1],
                     precision |-> IF args.float16 THEN "FLOAT16"
                                   ELSE "FLOAT32",
                     quantized |-> FALSE]>>
    /\ printed' = printed \o <<"info_input", "info_output", "info_shape",
                               "debug_mlmodel">>
    /\ steps' = Append(steps, "convert")
    /\ pc' = "quantize"
    /\ UNCHANGED <<tool, raised, exit, args, ckpt, net, model, input_desc,
                   traced, outFile>>
    /\ UNCHANGED runVars

\* if args.float16: mlmodel = quantization_utils.quantize_weights(mlmodel, 16)
Quantize ==
    /\ tool = "convert" /\ pc = "quantize"
    /\ IF NeedsQuantize(args)
       THEN /\ mlmodel' = <<[mlmodel[1] EXCEPT !.quantized = TRUE]>>
            /\ printed' = Append(printed, "info_fp16")
            /\ steps' = Append(steps, "quantize_weights")
       ELSE UNCHANGED <<mlmodel, printed, steps>>
    /\ pc' = "save"
    /\ UNCHANGED <<tool, raised, exit, args, ckpt, net, model, input_desc,
                   traced, outFile>>
    /\ UNCHANGED runVars

\* mlmodel.save(args.out); print("Conversion complete."); main returns
Save ==
    /\ tool = "convert" /\ pc = "save"
    /\ outFile' = <<[pkg |-> mlmodel[1], complete |-> TRUE]>>
    /\ printed' = printed \o <<"saving", "complete">>
    /\ steps' = Append(steps, "save")
    /\ exit' = "0"
    /\ pc' = "exited"
    /\ UNCHANGED <<tool, raised, args, ckpt, net, model, input_desc, traced,
                   mlmodel>>
    /\ UNCHANGED runVars

\* the library call made at each position of the try block
CallAt(p) ==
    IF p = "declare" THEN "ImageType"
    ELSE IF p = "trace" THEN "trace"
    ELSE IF p = "convert" THEN "convert"
    ELSE "quantize_weights"

\* a library call of the try block raises (RangeDim / ImageType, trace,
\* convert, quantize_weights): caught by the except block
LibraryRaises ==
    /\ tool = "convert"
    /\ pc \in {"declare", "trace", "convert"}
         \/ (pc = "quantize" /\ NeedsQuantize(args))
    /\ ConvFail("LibraryError")
    /\ steps' = Append(steps, CallAt(pc))
    /\ UNCHANGED tool
    /\ UNCHANGED convVars
    /\ UNCHANGED runVars

\* mlmodel.save raises: nothing is cleaned up, so the path holds nothing or
\* an incomplete package
SaveRaises ==
    /\ tool = "convert" /\ pc = "save"
    /\ \/ outFile' = outFile
       \/ outFile' = <<[pkg |-> mlmodel[1], complete |-> FALSE]>>
    /\ raised' = "SaveError"
    /\ printed' = printed \o <<"saving", "conversion_error">>
    /\ steps' = Append(steps, "save")
    /\ exit' = "1"
    /\ pc' = "exited"
    /\ UNCHANGED <<tool, args, ckpt, net, model, input_desc, traced, mlmodel>>
    /\ UNCHANGED runVars

ConvNext ==
    \/ LoadWeights
    \/ LoadWeightsMismatch
    \/ Wrap
    \/ DeclareInput
    \/ Trace
    \/ Convert
    \/ Quantize
    \/ Save
    \/ LibraryRaises
    \/ SaveRaises

----------------------------------------------------------------------------
(* quick_sr.py *)

\* array elements of a floating-point image: negative, 0.5, 1.0, 1.5,
\* 200.5, 257
FloatVals == {0 - 1, Scale \div 2, ONE, ONE + (Scale \div 2),
              (200 * Scale) + (Scale \div 2), 257 * Scale}
\* array elements of an 8-bit image: 0, 1, 200
IntVals == {0, ONE, 200 * Scale}

Images ==
    [isImage : {TRUE}, dtype : {"float32"}, arr : [1..ArrLen -> FloatVals]]
    \cup [isImage : {TRUE}, dtype : {"uint8"}, arr : [1..ArrLen -> IntVals]]

\* an output that is not a PIL image (a multi-array output)
NonImage == [isImage |-> FALSE, dtype |-> "float32", arr |-> <<>>]

Values == Images \cup {NonImage}

\* what the second key of a two-output model may carry
SideValues ==
    {NonImage,
     [isImage |-> TRUE, dtype |-> "uint8", arr |-> [i \in 1..ArrLen |-> 200 * Scale]],
     [isImage |-> TRUE, dtype |-> "float32", arr |-> [i \in 1..ArrLen |-> Scale \div 2]]}

OutKeys == {"output_image", "var_1", "var_2"}

\* the dict predict returns, in key order: one or two outputs
PredictResults ==
    {<<[key |-> k, val |-> v]>> : k \in {"output_image", "var_1"}, v \in Values}
    \cup {<<[key |-> k[1], val |-> v], [key |-> k[2], val |-> s]>> :
            k \in {kk \in OutKeys \X OutKeys : kk[1] # kk[2]},
            v \in Values, s \in SideValues}
    \cup {<<[key |-> k[1], val |-> s], [key |-> k[2], val |-> v]>> :
            k \in {kk \in OutKeys \X OutKeys : kk[1] # kk[2]},
            v \in Values, s \in SideValues}

\* key in result
HasKey(r, k) == \E i \in 1..Len(r) : r[i].key = k

\* result[key]
Get(r, k) == r[CHOOSE i \in 1..Len(r) : r[i].key = k].val

\* lines 74-81: the key the output is read under, always the first key
OutputKey_first(r) == r[1].key
\* lines 74-81: the key the output is read under
OutputKey(r) == IF HasKey(r, "output_image") THEN "output_image" ELSE r[1].key

\* np.issubdtype(dtype, np.floating)
IsFloating(dtype) == dtype = "float32"

\* lines 132-136 (and save_image, lines 25-29): the 8-bit image
ToUint8Image_strict(arr) ==
    IF ArrMax(arr) < ONE
    THEN [i \in 1..Len(arr) |-> AsUint8(Clip(arr[i] * 255, 0, 255 * Scale))]
    ELSE [i \in 1..Len(arr) |-> AsUint8(Clip(arr[i], 0, 255 * Scale))]
ToUint8Image(arr) ==
    IF ArrMax(arr) <= ONE
    THEN [i \in 1..Len(arr) |-> AsUint8(Clip(arr[i] * 255, 0, 255 * Scale))]
    ELSE [i \in 1..Len(arr) |-> AsUint8(Clip(arr[i], 0, 255 * Scale))]

\* lines 147-155: the values given to plt.hist for hist_output.png
HistValues(dtype, arr) ==
    IF IsFloating(dtype)
    THEN IF ArrMax(arr) <= ONE
         THEN [i \in 1..Len(arr) |-> arr[i] * 255]
         ELSE arr
    ELSE arr

\* an exception nothing catches: the interpreter prints it and exits 1
Crash(exc) ==
    /\ raised' = exc
    /\ exit' = "1"
    /\ pc' = "exited"

\* an except block of main: print the error, return
EarlyReturn_continue(msg, next) ==
    /\ printed' = Append(printed, msg)
    /\ pc' = next
    /\ UNCHANGED <<raised, exit>>
EarlyReturn(msg, next) ==
    /\ printed' = Append(printed, msg)
    /\ exit' = "0"
    /\ pc' = "exited"
    /\ UNCHANGED raised

\* mlmodel = ct.models.MLModel(args.model)
LoadModel ==
    /\ tool = "quick_sr" /\ pc = "load_model"
    /\ loaded' = TRUE
    /\ steps' = Append(steps, "MLModel")
    /\ pc' = "load_image"
    /\ UNCHANGED <<tool, printed, raised, exit, histDirExists, decoded,
                   result, out, out_key, files, savedImg, floatHist, histData>>
    /\ UNCHANGED convVars

\* ... except Exception: print, return
LoadModelFails ==
    /\ tool = "quick_sr" /\ pc = "load_model"
    /\ steps' = Append(steps, "MLModel")
    /\ EarlyReturn("load_error", "load_image")
    /\ UNCHANGED <<tool, histDirExists, loaded, decoded, result, out, out_key,
                   files, savedImg, floatHist, histData>>
    /\ UNCHANGED convVars

\* inp = load_image(args.input)
LoadImage ==
    /\ tool = "quick_sr" /\ pc = "load_image"
    /\ decoded' = TRUE
    /\ steps' = Append(steps, "load_image")
    /\ pc' = "predict"
    /\ UNCHANGED <<tool, printed, raised, exit, histDirExists, loaded,
                   result, out, out_key, files, savedImg, floatHist, histData>>
    /\ UNCHANGED convVars

\* Image.open raises: outside every try block
LoadImageFails ==
    /\ tool = "quick_sr" /\ pc = "load_image"
    /\ steps' = Append(steps, "load_image")
    /\ Crash("ImageOpenError")
    /\ UNCHANGED <<tool, printed, histDirExists, loaded, decoded, result,
                   out, out_key, files, savedImg, floatHist, histData>>
    /\ UNCHANGED convVars

\* result = mlmodel.predict({"input_image": inp}); print the duration
Predict ==
    /\ tool = "quick_sr" /\ pc = "predict"
    /\ \E r \in PredictResults : result' = r
    /\ steps' = Append(steps, "predict")
    /\ printed' = Append(printed, "inference_time")
    /\ pc' = "lookup"
    /\ UNCHANGED <<tool, raised, exit, histDirExists, loaded, decoded, out,
                   out_key, files, savedImg, floatHist, histData>>
    /\ UNCHANGED convVars

\* ... except Exception: print, return
PredictFails ==
    /\ tool = "quick_sr" /\ pc = "predict"
    /\ steps' = Append(steps, "predict")
    /\ EarlyReturn("predict_error", "lookup")
    /\ UNCHANGED <<tool, histDirExists, loaded, decoded, result, out, out_key,
                   files, savedImg, floatHist, histData>>
    /\ UNCHANGED convVars

\* lines 74-81: read the output under output_image, else under the first key
Lookup ==
    /\ tool = "quick_sr" /\ pc = "lookup"
    /\ out_key' = OutputKey(result)
    /\ out' = <<Get(result, OutputKey(result))>>
    /\ printed' = IF HasKey(result, "output_image") THEN printed
                  ELSE Append(printed, "debug_output_key")
    /\ pc' = "typecheck"
    /\ UNCHANGED <<tool, steps, raised, exit, histDirExists, loaded, decoded,
                   result, files, savedImg, floatHist, histData>>
    /\ UNCHANGED convVars

\* lines 84-110: the isinstance check, then the diagnostic prints
TypeCheck ==
    /\ tool = "quick_sr" /\ pc = "typecheck"
    /\ IF out[1].isImage
       THEN /\ printed' = printed \o <<"debug_type", "debug_mode",
                                       "debug_array", "output_stats">>
            /\ pc' = "float_dump"
            /\ UNCHANGED <<raised, exit>>
       ELSE /\ Crash("TypeError")
            /\ UNCHANGED printed
    /\ UNCHANGED <<tool, steps, histDirExists, loaded, decoded, result, out,
                   out_key, files, savedImg, floatHist, histData>>
    /\ UNCHANGED convVars

\* lines 113-127: a floating-point array is dumped and plotted over (0, 1).
\* np.save opens hist_dir/output_float.npy: FileNotFoundError without the
\* directory
FloatDump ==
    /\ tool = "quick_sr" /\ pc = "float_dump"
    /\ IF ~IsFloating(out[1].dtype)
       THEN /\ pc' = "save_image"
            /\ UNCHANGED <<steps, printed, raised, exit, files, floatHist>>
       ELSE IF ~histDirExists
       THEN /\ steps' = Append(steps, "np.save")
            /\ Crash("FileNotFoundError")
            /\ UNCHANGED <<printed, files, floatHist>>
       ELSE /\ steps' = steps \o <<"np.save", "savefig_float">>
            /\ files' = files \cup {"output_float.npy", "hist_output_float.png"}
            /\ floatHist' = out[1].arr
            /\ printed' = printed \o <<"float_saved", "float_stats",
                                       "float_hist_saved">>
            /\ pc' = "save_image"
            /\ UNCHANGED <<raised, exit>>
    /\ UNCHANGED <<tool, histDirExists, loaded, decoded, result, out, out_key,
                   savedImg, histData>>
    /\ UNCHANGED convVars

\* lines 132-138: convert to 8 bit and save at args.output
SaveImage ==
    /\ tool = "quick_sr" /\ pc = "save_image"
    /\ savedImg' = ToUint8Image(out[1].arr)
    /\ files' = files \cup {"output"}
    /\ steps' = Append(steps, "save_output")
    /\ printed' = Append(printed, "output_saved")
    /\ pc' = "makedirs"
    /\ UNCHANGED <<tool, raised, exit, histDirExists, loaded, decoded, result,
                   out, out_key, floatHist, histData>>
    /\ UNCHANGED convVars

\* os.makedirs(args.hist_dir, exist_ok=True)
MakeDirs ==
    /\ tool = "quick_sr" /\ pc = "makedirs"
    /\ histDirExists' = TRUE
    /\ steps' = Append(steps, "makedirs")
    /\ pc' = "hist"
    /\ UNCHANGED <<tool, printed, raised, exit, loaded, decoded, result, out,
                   out_key, files, savedImg, floatHist, histData>>
    /\ UNCHANGED convVars

\* lines 145-160: the histogram over (0, 255); main returns
Hist ==
    /\ tool = "quick_sr" /\ pc = "hist"
    /\ histData' = HistValues(out[1].dtype, out[1].arr)
    /\ files' = files \cup {"hist_output.png"}
    /\ steps' = Append(steps, "savefig_hist")
    /\ printed' = Append(printed, "hist_saved")
    /\ exit' = "0"
    /\ pc' = "exited"
    /\ UNCHANGED <<tool, raised, histDirExists, loaded, decoded, result, out,
                   out_key, savedImg, floatHist>>
    /\ UNCHANGED convVars

RunNext ==
    \/ LoadModel
    \/ LoadModelFails
    \/ LoadImage
    \/ LoadImageFails
    \/ Predict
    \/ PredictFails
    \/ Lookup
    \/ TypeCheck
    \/ FloatDump
    \/ SaveImage
    \/ MakeDirs
    \/ Hist

----------------------------------------------------------------------------
(* The runs *)

Init ==
    /\ tool \in {"convert", "quick_sr"}
    /\ pc = IF tool = "convert" THEN "load" ELSE "load_model"
    /\ steps = <<>>
    /\ printed = <<>>
    /\ raised = ""
    /\ exit = "running"
    /\ args \in IF tool = "convert" THEN ConvArgs
                ELSE {[float16 |-> FALSE, min_dim |-> 1, max_dim |-> 1]}
    /\ ckpt \in IF tool = "convert" THEN SUBSET CkptKeys ELSE {{}}
    /\ net = [loaded |-> <<>>, eval |-> FALSE]
    /\ model = "none"
    /\ input_desc = <<>>
    /\ traced = <<>>
    /\ mlmodel = <<>>
    /\ outFile = <<>>
    /\ histDirExists \in IF tool = "quick_sr" THEN BOOLEAN ELSE {FALSE}
    /\ loaded = FALSE
    /\ decoded = FALSE
    /\ result = <<>>
    /\ out = <<>>
    /\ out_key = ""
    /\ files = {}
    /\ savedImg = <<>>
    /\ floatHist = <<>>
    /\ histData = <<>>

Next == ConvNext \/ RunNext

Spec == Init /\ [][Next]_vars

----------------------------------------------------------------------------
(* Properties of the converter *)

Recognised == {"params_ema", "params"}

\* C1: a checkpoint holding neither params_ema nor params makes the run fail
\* inside load_rrdbnet: no later call is made, nothing is traced, converted
\* or written at the output path, and the exit status is 1.
C1_NoParamsKeyFailsInLoad ==
    (tool = "convert" /\ pc # "load" /\ ckpt \cap Recognised = {}) =>
        /\ pc = "exited"
        /\ exit = "1"
        /\ raised = "RuntimeError"
        /\ steps = <<"load_rrdbnet">>
        /\ traced = <<>>
        /\ mlmodel = <<>>
        /\ outFile = <<>>

C1_Witness ==
    /\ tool = "convert"
    /\ ckpt = {"optimizer"}
    /\ pc = "exited"

\* C4: every value the wrapped module returns lies in [0, 255], whatever the
\* network produced, and what is traced, converted and saved is the wrapped
\* module.
C4_WrappedOutputInRange ==
    tool = "convert" =>
        /\ traced # <<>> =>
             /\ traced[1].module = "ClampedModel"
             /\ \A i \in 1..Len(traced[1].out) :
                    /\ traced[1].out[i] >= 0
                    /\ traced[1].out[i] <= 255 * Scale
        /\ mlmodel # <<>> => mlmodel[1].module = "ClampedModel"
        /\ outFile # <<>> => outFile[1].pkg.module = "ClampedModel"

C4_Witness ==
    /\ tool = "convert"
    /\ outFile # <<>>
    /\ \E i \in 1..ArrLen : traced[1].base[i] < 0
    /\ \E i \in 1..ArrLen : traced[1].base[i] > ONE

C9_KeyPreference ==
    tool = "convert" =>
        /\ "params_ema" \in ckpt => "params" \notin Range(net.loaded)
        /\ Len(net.loaded) <= 1
        /\ model # "none" =>
             /\ Len(net.loaded) = 1
             /\ net.loaded[1] \in ckpt \cap Recognised
             /\ net.eval

C9_Witness ==
    /\ tool = "convert"
    /\ Recognised \subseteq ckpt
    /\ model # "none"
    /\ net.loaded = <<"params_ema">>

\* the calls of a complete run, in order
ExpectedSteps(a) ==
    <<"load_rrdbnet", "ClampedModel", "ImageType", "trace", "convert">>
    \o (IF a.float16 THEN <<"quantize_weights">> ELSE <<>>)
    \o <<"save">>

IsPrefix(s, t) == Len(s) <= Len(t) /\ SubSeq(t, 1, Len(s)) = s

\* C10: the calls are made in the order load, wrap, trace, convert,
\* (quantize), save; quantize_weights is called iff --float16 was given,
\* after convert and before save; what is written at the output path is the
\* quantized package in that case and the converted one otherwise; and the
\* path is written only after every earlier call returned.
C10_StepOrder ==
    tool = "convert" =>
        /\ IsPrefix(steps, ExpectedSteps(args))
        /\ outFile # <<>> =>
             /\ steps = ExpectedSteps(args)
             /\ outFile[1].pkg = mlmodel[1]
             /\ outFile[1].pkg.quantized = args.float16
        /\ exit = "0" =>
             /\ steps = ExpectedSteps(args)
             /\ outFile # <<>>
             /\ outFile[1].complete

C10_Witness ==
    /\ tool = "convert"
    /\ exit = "0"
    /\ args.float16
    /\ outFile[1].pkg.quantized

----------------------------------------------------------------------------
(* Properties of the inference runner *)

HistDirWrites == {"np.save", "savefig_float", "savefig_hist"}

\* C2 (as claimed): every write into the histogram directory comes after
\* the call that ensures the directory exists.
C2_HistDirEnsuredBeforeWrites ==
    tool = "quick_sr" =>
        \A i \in 1..Len(steps) :
            steps[i] \in HistDirWrites =>
                \E j \in 1..(i - 1) : steps[j] = "makedirs"

\* numpy.round on one element: to the nearest integer, ties to even
RoundInt(x) ==
    LET q == x \div Scale
        r == x % Scale
    IN  IF 2 * r < Scale THEN q
        ELSE IF 2 * r > Scale THEN q + 1
        ELSE IF q % 2 = 0 THEN q ELSE q + 1

\* floor on one element
FloorInt(x) == x \div Scale

\* C3 (as amended): the saved 8-bit image is floor(clip(arr*255, 0, 255))
\* elementwise when max(arr) <= 1.0 and floor(clip(arr, 0, 255)) elementwise
\* when max(arr) > 1.0: the fraction is dropped, not rounded.
C3_SavedImageIsFloor ==
    (tool = "quick_sr" /\ "output" \in files) =>
        LET arr == out[1].arr IN
          /\ Len(savedImg) = Len(arr)
          /\ \A i \in 1..Len(arr) :
               savedImg[i] =
                 IF ArrMax(arr) <= ONE
                 THEN FloorInt(Clip(arr[i] * 255, 0, 255 * Scale))
                 ELSE FloorInt(Clip(arr[i], 0, 255 * Scale))

C3_Witness ==
    /\ tool = "quick_sr"
    /\ "output" \in files
    /\ ArrMax(out[1].arr) <= ONE
    /\ \E i \in 1..ArrLen :
         /\ out[1].arr[i] > 0
         /\ (out[1].arr[i] * 255) % Scale # 0

\* C3 (as claimed): the saved 8-bit image is round(clip(arr*255, 0, 255))
\* when max(arr) <= 1.0 and round(clip(arr, 0, 255)) when max(arr) > 1.0.
C3_SavedImageIsRound ==
    (tool = "quick_sr" /\ "output" \in files) =>
        LET arr == out[1].arr IN
          /\ Len(savedImg) = Len(arr)
          /\ \A i \in 1..Len(arr) :
               savedImg[i] =
                 IF ArrMax(arr) <= ONE
                 THEN RoundInt(Clip(arr[i] * 255, 0, 255 * Scale))
                 ELSE RoundInt(Clip(arr[i], 0, 255 * Scale))

\* C6: once the output has been looked up, it is the value under
\* output_image whenever the result has that key; otherwise it is the value
\* under the result's first key, the fallback key has been printed, and the
\* lookup itself has not ended the run.
C6_OutputLookup ==
    (tool = "quick_sr" /\ result # <<>> /\ pc # "lookup") =>
        /\ out # <<>>
        /\ IF HasKey(result, "output_image")
           THEN /\ out_key = "output_image"
                /\ out[1] = Get(result, "output_image")
                /\ "debug_output_key" \notin Range(printed)
           ELSE /\ out_key = result[1].key
                /\ out[1] = result[1].val
                /\ "debug_output_key" \in Range(printed)
        /\ raised \in {"", "TypeError", "FileNotFoundError"}

C6_Witness ==
    /\ tool = "quick_sr"
    /\ Len(result) = 2
    /\ ~HasKey(result, "output_image")
    /\ out_key = result[1].key
    /\ exit = "0"

\* C7: a model-load failure and a prediction failure each print their error
\* and end main by return with nothing written (after a load failure the
\* image is not decoded and predict is not called); an output that is not
\* an image ends the run with an uncaught TypeError before anything is
\* written.
C7_FailureSemantics ==
    tool = "quick_sr" =>
        /\ "load_error" \in Range(printed) =>
             /\ pc = "exited" /\ raised = ""
             /\ steps = <<"MLModel">>
             /\ ~decoded
             /\ files = {} /\ savedImg = <<>>
        /\ "predict_error" \in Range(printed) =>
             /\ pc = "exited" /\ raised = ""
             /\ steps = <<"MLModel", "load_image", "predict">>
             /\ result = <<>>
             /\ files = {} /\ savedImg = <<>>
        /\ (out # <<>> /\ pc # "typecheck" /\ ~out[1].isImage) =>
             /\ pc = "exited" /\ raised = "TypeError" /\ exit = "1"
             /\ files = {} /\ savedImg = <<>>

C7_Witness ==
    /\ tool = "quick_sr"
    /\ "predict_error" \in Range(printed)
    /\ pc = "exited"

\* C8 (as claimed): the values plotted in hist_output.png are the array's
\* values times 255 exactly when the array's maximum is <= 1, whatever the
\* dtype, which is the decision taken for the saved image.
C8_HistRescaleAgreesWithImage ==
    (tool = "quick_sr" /\ "hist_output.png" \in files) =>
        LET arr == out[1].arr IN
          histData = IF ArrMax(arr) <= ONE
                     THEN [i \in 1..Len(arr) |-> arr[i] * 255]
                     ELSE arr

====
